---- MODULE Spec2Model ----
(***************************************************************************)
(* uni_stego: two steganographic codecs over Unicode text (src/main.rs).   *)
(*                                                                         *)
(*   emoji      one variation selector appended to a cover character per   *)
(*              message byte (encode_emoji / decode_emoji)                 *)
(*   homoglyph  one message bit per cover character that has a look-alike  *)
(*              (encode_homoglyph / decode_homoglyph)                      *)
(*                                                                         *)
(* A Rust String / &str is modelled as the sequence of its chars (Unicode  *)
(* scalar values, as naturals); its bytes are the UTF-8 encoding of that   *)
(* sequence.  A byte is a natural in 0..255, a bit a BOOLEAN.  Option<T>   *)
(* is <<>> (None) or <<v>> (Some(v)).                                      *)
(***************************************************************************)
EXTENDS Integers, Sequences, FiniteSets, TLC

VARIABLES
    method,     \* Cli.method of the running invocation
    command,    \* Cli.command: "Encode" or "Decode"
    text,       \* the -t argument, a string
    cover,      \* the -c argument, a string (unused by Decode)
    pc,         \* "parsed": main has parsed the arguments; "done": main returned;
                \* for a direct call of the mapping, "call" and "returned"
    ret,        \* what encode(..)/decode(..) returned to main
    raw,        \* the decoder's recovered bytes, before from_utf8_lossy
    stdout,     \* the lines println! wrote, oldest first
    sent,       \* the Encode invocation whose printed output is now `text`
    fn,         \* the byte/char mapping under direct call: "get_char" or "get_byte"
    arg,        \* its argument
    res,        \* its return value (an Option)
    prev        \* the argument of the call whose result is now `arg`

vars == <<method, command, text, cover, pc, ret, raw, stdout, sent, fn, arg, res, prev>>

cliVars == <<method, command, text, cover, ret, raw, stdout, sent>>

mapVars == <<fn, arg, res, prev>>

-----------------------------------------------------------------------------
(* Bounds of the model.                                                    *)

\* longest message, in chars
MaxMsgLen == 2

\* longest cover handed to the emoji codec, in chars
MaxEmojiCover == 2

\* longest text handed directly to decode_emoji, in chars
MaxEmojiText == 3

\* most fragments of CoverUnits a homoglyph cover or text is made of
MaxCoverUnits == 3

\* code points looked at on each side of the two variation selector ranges
Margin == 4

-----------------------------------------------------------------------------
(* Option, Result, chars and UTF-8.                                        *)

None == <<>>

Some(v) == <<v>>

Ok(s) == [tag |-> "Ok", value |-> s]

Err(m, h, c, r) == [tag |-> "Err", msg |-> m, hidden |-> h, count |-> c, remaining |-> r]

NoReturn == [tag |-> "None"]

\* a char is a Unicode scalar value: a code point that is no surrogate
IsScalar(cp) == (0 <= cp /\ cp <= \hD7FF) \/ (\hE000 <= cp /\ cp <= \h10FFFF)

\* the value standing for "not a char": what an unchecked conversion of a
\* non-scalar code point would put into a char (undefined behaviour)
NotAChar == -1

\* the UTF-8 encoding of one char
EncodeUtf8(c) ==
    IF c < \h80 THEN <<c>>
    ELSE IF c < \h800 THEN <<\hC0 + (c \div 64), \h80 + (c % 64)>>
    ELSE IF c < \h10000 THEN
        <<\hE0 + (c \div 4096), \h80 + ((c \div 64) % 64), \h80 + (c % 64)>>
    ELSE <<\hF0 + (c \div 262144), \h80 + ((c \div 4096) % 64),
           \h80 + ((c \div 64) % 64), \h80 + (c % 64)>>

RECURSIVE AsBytes(_)
\* str::as_bytes: the UTF-8 bytes of a string
AsBytes(s) == IF s = <<>> THEN <<>> ELSE EncodeUtf8(Head(s)) \o AsBytes(Tail(s))

\* str::len: the length in bytes
StrLen(s) == Len(AsBytes(s))

\* str::chars().count()
CharsCount(s) == Len(s)

IsCont(b) == \h80 <= b /\ b <= \hBF

\* the lowest and highest second byte UTF-8 allows after lead byte b
SecondLo(b) == IF b = \hE0 THEN \hA0 ELSE IF b = \hF0 THEN \h90 ELSE \h80

SecondHi(b) == IF b = \hED THEN \h9F ELSE IF b = \hF4 THEN \h8F ELSE \hBF

\* the length of the sequence lead byte b announces (0: b is no lead byte)
SeqWidth(b) ==
    IF b < \h80 THEN 1
    ELSE IF \hC2 <= b /\ b <= \hDF THEN 2
    ELSE IF \hE0 <= b /\ b <= \hEF THEN 3
    ELSE IF \hF0 <= b /\ b <= \hF4 THEN 4
    ELSE 0

\* how many bytes from position i on form a valid prefix of one sequence
ValidUpTo(bs, i) ==
    LET w == SeqWidth(bs[i])
        has(k) == i + k <= Len(bs)
    IN  IF w = 0 THEN 0
        ELSE IF w = 1 THEN 1
        ELSE IF ~(has(1) /\ SecondLo(bs[i]) <= bs[i + 1] /\ bs[i + 1] <= SecondHi(bs[i])) THEN 1
        ELSE IF w = 2 THEN 2
        ELSE IF ~(has(2) /\ IsCont(bs[i + 2])) THEN 2
        ELSE IF w = 3 THEN 3
        ELSE IF ~(has(3) /\ IsCont(bs[i + 3])) THEN 3
        ELSE 4

\* the char the w valid bytes at position i encode
DecodeAt(bs, i, w) ==
    IF w = 1 THEN bs[i]
    ELSE IF w = 2 THEN (bs[i] - \hC0) * 64 + (bs[i + 1] - \h80)
    ELSE IF w = 3 THEN (bs[i] - \hE0) * 4096 + (bs[i + 1] - \h80) * 64 + (bs[i + 2] - \h80)
    ELSE (bs[i] - \hF0) * 262144 + (bs[i + 1] - \h80) * 4096
         + (bs[i + 2] - \h80) * 64 + (bs[i + 3] - \h80)

REPLACEMENT_CHARACTER == \hFFFD

RECURSIVE LossyFrom(_, _)
LossyFrom(bs, i) ==
    IF i > Len(bs) THEN <<>>
    ELSE LET w == SeqWidth(bs[i])
             v == ValidUpTo(bs, i)
         IN  IF w # 0 /\ v = w
             THEN <<DecodeAt(bs, i, w)>> \o LossyFrom(bs, i + w)
             ELSE <<REPLACEMENT_CHARACTER>> \o LossyFrom(bs, i + (IF v = 0 THEN 1 ELSE v))

\* String::from_utf8_lossy(bytes).to_string(): each maximal invalid part of
\* the bytes becomes one U+FFFD, valid sequences become their chars
FromUtf8Lossy(bs) == LossyFrom(bs, 1)

-----------------------------------------------------------------------------
(* The homoglyph tables.                                                   *)

\* static HOMOGLYPHS: base char -> look-alike
HOMOGLYPHS ==
    (\h002d :> \h2010) @@ (\h003b :> \h037e) @@ (\h0043 :> \h216d) @@ (\h0044 :> \h216e) @@
    (\h004b :> \h212a) @@ (\h004c :> \h216c) @@ (\h004d :> \h216f) @@ (\h0056 :> \h2164) @@
    (\h0058 :> \h2169) @@ (\h0063 :> \h217d) @@ (\h0064 :> \h217e) @@ (\h0069 :> \h2170) @@
    (\h006a :> \h0458) @@ (\h006c :> \h217c) @@ (\h0076 :> \h2174) @@ (\h0078 :> \h2179)

\* static CHARS: every base char and every look-alike
CHARS ==
    {\h2010, \h002d, \h037e, \h003b, \h216d, \h0043, \h216e, \h0044,
     \h212a, \h004b, \h216c, \h004c, \h216f, \h004d, \h2164, \h0056,
     \h2169, \h0058, \h217d, \h0063, \h217e, \h0064, \h2170, \h0069,
     \h0458, \h006a, \h217c, \h006c, \h2174, \h0076, \h2179, \h0078}

\* HOMOGLYPHS.get(&c)
HomoglyphsGet(c) == IF c \in DOMAIN HOMOGLYPHS THEN Some(HOMOGLYPHS[c]) ELSE None

\* get_homoglyph looking c up in CHARS instead of HOMOGLYPHS: a look-alike
\* takes a bit too
get_homoglyph_in_chars(c, bit) ==
    IF c \notin CHARS THEN None
    ELSE IF bit /\ c \in DOMAIN HOMOGLYPHS THEN Some(HOMOGLYPHS[c]) ELSE Some(c)

\* get_homoglyph(c, bit): None when c has no look-alike, else the char to emit
get_homoglyph(c, bit) ==
    LET homoglyph == HomoglyphsGet(c)
    IN  IF homoglyph = None THEN None
        ELSE IF bit THEN Some(homoglyph[1]) ELSE Some(c)

\* get_bit with the test turned round: a base char reads as 1
get_bit_inverted(c) == IF c \in CHARS THEN Some(HomoglyphsGet(c) # None) ELSE None

\* get_bit(c): None when c is not in CHARS, else whether c is no base char
get_bit(c) == IF c \in CHARS THEN Some(HomoglyphsGet(c) = None) ELSE None

-----------------------------------------------------------------------------
(* The byte <-> variation selector mapping.                                *)

VARIATION_SELECTOR_START == 65024

VARIATION_SELECTOR_END == 65039

VARIATION_SELECTOR_SUPPLEMENT_START == 917760

VARIATION_SELECTOR_SUPPLEMENT_END == 917999

\* char::from_u32_unchecked: the char of a scalar value; undefined behaviour,
\* marked by NotAChar, for any other code point
from_u32_unchecked(code_point) == IF IsScalar(code_point) THEN code_point ELSE NotAChar

\* get_char with the split at byte <= 16
get_char_le16(byte) ==
    LET code_point ==
            IF byte <= 16 THEN VARIATION_SELECTOR_START + byte
            ELSE VARIATION_SELECTOR_SUPPLEMENT_START + byte - 16
    IN  from_u32_unchecked(code_point)

\* get_char(byte)
get_char(byte) ==
    LET code_point ==
            IF byte < 16 THEN VARIATION_SELECTOR_START + byte
            ELSE VARIATION_SELECTOR_SUPPLEMENT_START + byte - 16
    IN  from_u32_unchecked(code_point)

\* get_byte with the first range taken without its end (.. instead of ..=)
get_byte_exclusive_end(c) ==
    IF VARIATION_SELECTOR_START <= c /\ c < VARIATION_SELECTOR_END
    THEN Some((c - VARIATION_SELECTOR_START) % 256)
    ELSE IF VARIATION_SELECTOR_SUPPLEMENT_START <= c /\ c <= VARIATION_SELECTOR_SUPPLEMENT_END
    THEN Some((c - VARIATION_SELECTOR_SUPPLEMENT_START + 16) % 256)
    ELSE None

\* get_byte(c); `as u8` keeps the low 8 bits
get_byte(c) ==
    LET code_point == c
    IN  IF VARIATION_SELECTOR_START <= code_point /\ code_point <= VARIATION_SELECTOR_END
        THEN Some((code_point - VARIATION_SELECTOR_START) % 256)
        ELSE IF VARIATION_SELECTOR_SUPPLEMENT_START <= code_point
                /\ code_point <= VARIATION_SELECTOR_SUPPLEMENT_END
        THEN Some((code_point - VARIATION_SELECTOR_SUPPLEMENT_START + 16) % 256)
        ELSE None

-----------------------------------------------------------------------------
(* The emoji codec.                                                        *)

RECURSIVE PushChars(_)
\* the loop of encode_emoji: one get_char per byte, in order
PushChars(bytes) ==
    IF bytes = <<>> THEN <<>> ELSE <<get_char(Head(bytes))>> \o PushChars(Tail(bytes))

\* encode_emoji checking the cover's byte length (cover.len()) instead of its
\* char count
encode_emoji_byte_len(t, c) ==
    IF StrLen(c) # 1
    THEN Err("Cover text must be exactly one character long", 0, 0, 0)
    ELSE Ok(<<c[1]>> \o PushChars(AsBytes(t)))

\* encode_emoji(text, cover): the value returned
encode_emoji(t, c) ==
    IF CharsCount(c) # 1
    THEN Err("Cover text must be exactly one character long", 0, 0, 0)
    ELSE Ok(<<c[1]>> \o PushChars(AsBytes(t)))

RECURSIVE EmojiBuffer(_)
\* the loop of decode_emoji: the bytes of the chars get_byte knows, in order
EmojiBuffer(t) ==
    IF t = <<>> THEN <<>>
    ELSE LET byte == get_byte(Head(t))
         IN  (IF byte # None THEN <<byte[1]>> ELSE <<>>) \o EmojiBuffer(Tail(t))

\* decode_emoji(text): the value returned
decode_emoji(t) == Ok(FromUtf8Lossy(EmojiBuffer(t)))

-----------------------------------------------------------------------------
(* The homoglyph codec.                                                    *)

\* bit j (0 = least significant) of a byte
BitOf(byte, j) == ((byte \div (2 ^ j)) % 2) = 1

\* the bits taken most significant first (Msb0)
AsBitsMsb0(bytes) ==
    [k \in 1..(8 * Len(bytes)) |-> BitOf(bytes[((k - 1) \div 8) + 1], 7 - ((k - 1) % 8))]

\* text.as_bits::<Lsb0>(): 8 bits per byte, least significant first
AsBitsLsb0(bytes) == [k \in 1..(8 * Len(bytes)) |-> BitOf(bytes[((k - 1) \div 8) + 1], (k - 1) % 8)]

RECURSIVE HomoglyphLoop(_, _, _, _, _)
\* the loop of encode_homoglyph over cover.chars(), from char i on: `next` is
\* how many bits the iterator has given out, `hidden` the counter
HomoglyphLoop(c, bits, i, next, st) ==
    IF i > Len(c) THEN [output |-> st.output, hidden |-> st.hidden, next |-> next]
    ELSE LET new_c == IF next < Len(bits) THEN get_homoglyph(c[i], bits[next + 1]) ELSE None
         IN  IF new_c # None
             THEN HomoglyphLoop(c, bits, i + 1, next + 1,
                                [output |-> Append(st.output, new_c[1]), hidden |-> st.hidden + 1])
             ELSE HomoglyphLoop(c, bits, i + 1, next,
                                [output |-> Append(st.output, c[i]), hidden |-> st.hidden])

\* encode_homoglyph reporting the length of the whole bit sequence as remaining
encode_homoglyph_all_remaining(t, c) ==
    LET bits == AsBitsLsb0(AsBytes(t))
        count == StrLen(t) * 8
        end == HomoglyphLoop(c, bits, 1, 0, [output |-> <<>>, hidden |-> 0])
    IN  IF Len(bits) - end.next # 0
        THEN Err("Cover text is not long enough to encode message", end.hidden, count, Len(bits))
        ELSE Ok(end.output)

\* encode_homoglyph(text, cover): the value returned
encode_homoglyph(t, c) ==
    LET bits == AsBitsLsb0(AsBytes(t))
        count == StrLen(t) * 8
        end == HomoglyphLoop(c, bits, 1, 0, [output |-> <<>>, hidden |-> 0])
        bits_len == Len(bits) - end.next
    IN  IF bits_len # 0
        THEN Err("Cover text is not long enough to encode message", end.hidden, count, bits_len)
        ELSE Ok(end.output)

RECURSIVE HomoglyphBits(_)
\* the loop of decode_homoglyph: one bit per char get_bit knows, in order
HomoglyphBits(t) ==
    IF t = <<>> THEN <<>>
    ELSE LET bit == get_bit(Head(t))
         IN  (IF bit # None THEN <<bit[1]>> ELSE <<>>) \o HomoglyphBits(Tail(t))

RECURSIVE ElementOf(_, _, _)
\* the storage element holding bits 8e+1 .. 8e+8 of a BitVec<u8, Lsb0> that was
\* only ever pushed to: bit j of the element is live bit 8e+j+1, a dead bit is 0
ElementOf(bits, e, j) ==
    IF j > 7 THEN 0
    ELSE (IF 8 * e + j + 1 <= Len(bits) /\ bits[8 * e + j + 1] THEN 2 ^ j ELSE 0)
         + ElementOf(bits, e, j + 1)

\* as_raw_slice leaving out a partial last element
AsRawSliceWhole(bits) == [e \in 1..(Len(bits) \div 8) |-> ElementOf(bits, e - 1, 0)]

\* bits.as_raw_slice(): every element the bits touch, a partial last one included
AsRawSlice(bits) == [e \in 1..((Len(bits) + 7) \div 8) |-> ElementOf(bits, e - 1, 0)]

\* decode_homoglyph(text): the value returned
decode_homoglyph(t) == Ok(FromUtf8Lossy(AsRawSlice(HomoglyphBits(t))))

-----------------------------------------------------------------------------
(* Dispatch.                                                               *)

Methods == {"Emoji", "Homoglyph"}

\* encode(method, text, cover)
encode(m, t, c) == IF m = "Emoji" THEN encode_emoji(t, c) ELSE encode_homoglyph(t, c)

\* decode(method, text)
decode(m, t) == IF m = "Emoji" THEN decode_emoji(t) ELSE decode_homoglyph(t)

\* the bytes decode(method, text) recovers before it rebuilds a string
recovered(m, t) == IF m = "Emoji" THEN EmojiBuffer(t) ELSE AsRawSlice(HomoglyphBits(t))

-----------------------------------------------------------------------------
(* The inputs the model runs the program on.                               *)

\* every sequence over S of length at most n
SeqsUpTo(S, n) == UNION {[1..k -> S] : k \in 0..n}

\* message chars for the emoji codec: bytes below 16 and from 16 on, and a
\* char of two and one of four bytes
EmojiMsgChars == {\h0F, \h10, \h41, \hE9, \h1F44D}

\* message chars for the homoglyph codec: 'A', 'B' and a char of two bytes
HomoglyphMsgChars == {\h41, \h42, \hE9}

\* cover chars for the emoji codec: U+1F44D (four bytes), 'a', and a char that
\* is itself a variation selector
EmojiCoverChars == {\h1F44D, \h61, \hFE00}

\* chars of a text handed to decode_emoji: the ends of both variation selector
\* ranges, their outer neighbours, a selector inside, and a plain char
EmojiTextChars == {\h61, \hFE00, \hFE0F, \hFE10, \hE0100, \hE0131, \hE01EF, \hE01F0}

\* fragments of a homoglyph cover: the base char '-', its look-alike, 'h' (in
\* no table), and runs of seven and of eight base chars
CoverUnits == {<<\h2d>>, <<\h2010>>, <<\h68>>,
               <<\h6c, \h2d, \h2d, \h6c, \h6c, \h2d, \h6c>>,
               <<\h2d, \h6c, \h2d, \h2d, \h6c, \h6c, \h2d, \h6c>>}

RECURSIVE UnitSeqs(_)
\* every concatenation of at most n fragments
UnitSeqs(n) ==
    IF n = 0 THEN {<<>>}
    ELSE UnitSeqs(n - 1) \cup {c \o u : c \in UnitSeqs(n - 1), u \in CoverUnits}

Messages(m) ==
    IF m = "Emoji" THEN SeqsUpTo(EmojiMsgChars, MaxMsgLen)
    ELSE SeqsUpTo(HomoglyphMsgChars, MaxMsgLen)

Covers(m) ==
    IF m = "Emoji" THEN SeqsUpTo(EmojiCoverChars, MaxEmojiCover) ELSE UnitSeqs(MaxCoverUnits)

Texts(m) ==
    IF m = "Emoji" THEN SeqsUpTo(EmojiTextChars, MaxEmojiText) ELSE UnitSeqs(MaxCoverUnits)

\* the chars handed directly to get_byte: both ranges, Margin code points on
\* each side of them, and chars far from them
CodePoints ==
    {cp \in ((VARIATION_SELECTOR_START - Margin)..(VARIATION_SELECTOR_END + Margin))
            \cup ((VARIATION_SELECTOR_SUPPLEMENT_START - Margin)
                  ..(VARIATION_SELECTOR_SUPPLEMENT_END + Margin))
            \cup {0, \h41, \hD7FF, \hE000, \hFFFD, \h1F44D, \h10FFFF} : IsScalar(cp)}

Bytes == 0..255

-----------------------------------------------------------------------------
(* The program: one invocation of main per "parsed" -> "done".             *)

RECURSIVE Decimal(_)
\* the chars of a usize printed with {}
Decimal(n) == IF n < 10 THEN <<48 + n>> ELSE Append(Decimal(n \div 10), 48 + (n % 10))

\* what encode_emoji prints itself: the byte length of a cover it rejects
EmojiPrints(c) == IF CharsCount(c) # 1 THEN <<Decimal(StrLen(c))>> ELSE <<>>

\* what main prints: the string returned, nothing for an error
MainPrints(r) == IF r.tag = "Ok" THEN <<r.value>> ELSE <<>>

MapIdle == fn = "none" /\ arg = 0 /\ res = None /\ prev = None

Init ==
    /\ pc = "parsed"
    /\ method \in Methods
    /\ \/ command = "Encode" /\ text \in Messages(method) /\ cover \in Covers(method)
       \/ command = "Decode" /\ text \in Texts(method) /\ cover = <<>>
    /\ ret = NoReturn
    /\ raw = <<>>
    /\ stdout = <<>>
    /\ sent = None
    /\ MapIdle

\* main, Commands::Encode with Method::Emoji
EncodeEmoji ==
    /\ pc = "parsed" /\ command = "Encode" /\ method = "Emoji"
    /\ ret' = encode(method, text, cover)
    /\ stdout' = stdout \o EmojiPrints(cover) \o MainPrints(ret')
    /\ pc' = "done"
    /\ UNCHANGED <<method, command, text, cover, raw, sent, mapVars>>

\* main, Commands::Encode with Method::Homoglyph
EncodeHomoglyph ==
    /\ pc = "parsed" /\ command = "Encode" /\ method = "Homoglyph"
    /\ ret' = encode(method, text, cover)
    /\ stdout' = stdout \o MainPrints(ret')
    /\ pc' = "done"
    /\ UNCHANGED <<method, command, text, cover, raw, sent, mapVars>>

\* main, Commands::Decode with Method::Emoji
DecodeEmoji ==
    /\ pc = "parsed" /\ command = "Decode" /\ method = "Emoji"
    /\ raw' = recovered(method, text)
    /\ ret' = decode(method, text)
    /\ stdout' = stdout \o MainPrints(ret')
    /\ pc' = "done"
    /\ UNCHANGED <<method, command, text, cover, sent, mapVars>>

\* main, Commands::Decode with Method::Homoglyph
DecodeHomoglyph ==
    /\ pc = "parsed" /\ command = "Decode" /\ method = "Homoglyph"
    /\ raw' = recovered(method, text)
    /\ ret' = decode(method, text)
    /\ stdout' = stdout \o MainPrints(ret')
    /\ pc' = "done"
    /\ UNCHANGED <<method, command, text, cover, sent, mapVars>>

\* the string an Encode invocation printed is handed to a Decode invocation
\* of the same method
DecodePrinted ==
    /\ pc = "done" /\ command = "Encode" /\ ret.tag = "Ok"
    /\ sent' = Some([text |-> text, cover |-> cover])
    /\ command' = "Decode"
    /\ text' = stdout[Len(stdout)]
    /\ cover' = <<>>
    /\ ret' = NoReturn
    /\ raw' = <<>>
    /\ stdout' = <<>>
    /\ pc' = "parsed"
    /\ UNCHANGED <<method, mapVars>>

Next == EncodeEmoji \/ EncodeHomoglyph \/ DecodeEmoji \/ DecodeHomoglyph \/ DecodePrinted

Spec == Init /\ [][Next]_vars

-----------------------------------------------------------------------------
(* The byte <-> char mapping called directly.                              *)

CliIdle ==
    /\ method = "none" /\ command = "none" /\ text = <<>> /\ cover = <<>>
    /\ ret = NoReturn /\ raw = <<>> /\ stdout = <<>> /\ sent = None

InitMap ==
    /\ CliIdle
    /\ pc = "call"
    /\ \/ fn = "get_char" /\ arg \in Bytes
       \/ fn = "get_byte" /\ arg \in CodePoints
    /\ res = None
    /\ prev = None

GetChar ==
    /\ pc = "call" /\ fn = "get_char"
    /\ res' = Some(get_char(arg))
    /\ pc' = "returned"
    /\ UNCHANGED <<fn, arg, prev, cliVars>>

GetByte ==
    /\ pc = "call" /\ fn = "get_byte"
    /\ res' = get_byte(arg)
    /\ pc' = "returned"
    /\ UNCHANGED <<fn, arg, prev, cliVars>>

\* the value one mapping returned is handed to the other
Compose ==
    /\ pc = "returned" /\ res # None /\ prev = None
    /\ fn' = (IF fn = "get_char" THEN "get_byte" ELSE "get_char")
    /\ arg' = res[1]
    /\ prev' = Some(arg)
    /\ res' = None
    /\ pc' = "call"
    /\ UNCHANGED cliVars

NextMap == GetChar \/ GetByte \/ Compose

SpecMap == InitMap /\ [][NextMap]_vars

-----------------------------------------------------------------------------
(* Vocabulary of the properties.                                           *)

\* the base chars and the look-alikes of HomoglyphTable
Keys == DOMAIN HOMOGLYPHS

LookAlikes == {HOMOGLYPHS[k] : k \in Keys}

\* how many chars of s are base chars
KeyCount(s) == Cardinality({i \in 1..Len(s) : s[i] \in Keys})

\* how many base chars s has before position j
KeysBefore(s, j) == Cardinality({i \in 1..(j - 1) : s[i] \in Keys})

\* message bit i, counting from 0: bit (i mod 8) of byte (i div 8)
MsgBit(bytes, i) == (bytes[(i \div 8) + 1] \div (2 ^ (i % 8))) % 2

InSelectors(c) == \hFE00 <= c /\ c <= \hFE0F

InSupplement(c) == \hE0100 <= c /\ c <= \hE01EF

\* the variation selector the format assigns to byte b
SelectorOf(b) == IF b < 16 THEN \hFE00 + b ELSE \hE0100 + (b - 16)

\* the byte the format assigns to a variation selector
ByteOf(c) == IF InSelectors(c) THEN c - \hFE00 ELSE c - \hE0100 + 16

CeilDiv8(n) == (n + 7) \div 8

Encoded(m) == pc = "done" /\ command = "Encode" /\ method = m

Decoded(m) == pc = "done" /\ command = "Decode" /\ method = m

-----------------------------------------------------------------------------
(* The emoji codec: properties.                                            *)

\* C1: decoding what encode_emoji made of message m and a cover of one char
\* (any char) gives back exactly m.
C1_EmojiRoundTrip ==
    (Decoded("Emoji") /\ sent # None /\ Len(sent[1].cover) = 1) => ret = Ok(sent[1].text)

\* C6: encode_emoji fails, with the InvalidCover message, exactly when the
\* cover does not have exactly one char, whatever its byte length and whatever
\* the message; otherwise it returns the cover char followed by one variation
\* selector per message byte, in message order.
C6_EmojiCover ==
    Encoded("Emoji") =>
        LET bytes == AsBytes(text)
        IN  /\ ret.tag = "Err" <=> Len(cover) # 1
            /\ ret.tag = "Err" => ret.msg = "Cover text must be exactly one character long"
            /\ ret.tag = "Ok" =>
                /\ Len(ret.value) = 1 + Len(bytes)
                /\ ret.value[1] = cover[1]
                /\ \A i \in 1..Len(bytes) : ret.value[i + 1] = SelectorOf(bytes[i])

\* C6 happens: a cover of one char that takes four bytes carries a message of
\* three bytes.
C6_Witness ==
    /\ Encoded("Emoji") /\ ret.tag = "Ok"
    /\ cover = <<\h1F44D>> /\ StrLen(cover) = 4
    /\ text = <<\h0F, \hE9>>

\* the chars of t that are variation selectors, in order
SelectorsIn(t) == SelectSeq(t, LAMBDA c : InSelectors(c) \/ InSupplement(c))

\* C7: decode_emoji never fails; the bytes it recovers are the bytes of the
\* variation selectors of the text, in order of appearance, every other char
\* contributing nothing; a text with no variation selector decodes to the
\* empty message.
C7_EmojiDecode ==
    Decoded("Emoji") =>
        LET sel == SelectorsIn(text)
        IN  /\ ret.tag = "Ok"
            /\ raw = [i \in 1..Len(sel) |-> ByteOf(sel[i])]
            /\ sel = <<>> => ret.value = <<>>

\* C7 happens: a text with a plain char, the last selector of the first range
\* and the char right after that range.
C7_Witness ==
    /\ Decoded("Emoji") /\ sent = None
    /\ text = <<\h61, \hFE0F, \hFE10>>
    /\ raw = <<15>>

-----------------------------------------------------------------------------
(* The byte <-> char mapping: properties.                                  *)

\* C3: get_char and get_byte are inverse bijections between the bytes and the
\* two variation selector ranges: get_byte(get_char(b)) = Some(b); get_char
\* gives pairwise distinct scalar values, bytes 0..15 in [FE00, FE0F] and bytes
\* 16..255 in [E0100, E01EF]; get_char(get_byte(c)) = c for c in the ranges;
\* get_byte is None outside them.
C3_Bijection ==
    /\ (pc = "returned" /\ fn = "get_char") =>
           LET c == res[1]
           IN  /\ IsScalar(c)
               /\ InSelectors(c) <=> arg < 16
               /\ InSupplement(c) <=> arg >= 16
               /\ \A b \in Bytes \ {arg} : get_char(b) # c
               /\ prev # None => c = prev[1]
    /\ (pc = "returned" /\ fn = "get_byte") =>
           /\ (InSelectors(arg) \/ InSupplement(arg)) <=> res # None
           /\ res # None => res[1] \in Bytes
           /\ prev # None => res = Some(prev[1])

\* C3 happens: byte 255 went through get_char and came back from get_byte.
C3_Witness ==
    /\ pc = "returned" /\ fn = "get_byte"
    /\ prev = Some(255) /\ arg = \hE01EF /\ res = Some(255)

-----------------------------------------------------------------------------
(* The homoglyph codec: properties.                                        *)

\* C2: for a cover of base chars only, at least 8 * len(m) of them,
\* encode_homoglyph succeeds and decode_homoglyph of its output is exactly m.
C2_HomoglyphRoundTrip ==
    /\ (Encoded("Homoglyph") /\ (\A i \in 1..Len(cover) : cover[i] \in Keys)
           /\ KeyCount(cover) >= 8 * StrLen(text))
       => ret.tag = "Ok"
    /\ (Decoded("Homoglyph") /\ sent # None
           /\ (\A i \in 1..Len(sent[1].cover) : sent[1].cover[i] \in Keys)
           /\ KeyCount(sent[1].cover) >= 8 * StrLen(sent[1].text))
       => ret = Ok(sent[1].text)

\* C4: encode_homoglyph fails exactly when the cover has fewer base chars than
\* the message has bits; look-alikes and chars outside the table add nothing.
C4_Capacity ==
    Encoded("Homoglyph") => (ret.tag = "Err" <=> KeyCount(cover) < 8 * StrLen(text))

\* C4 happens: a cover whose base chars and look-alikes together would
\* suffice, its base chars alone not.
C4_Witness ==
    /\ Encoded("Homoglyph") /\ ret.tag = "Err"
    /\ KeyCount(cover) = 7 /\ StrLen(text) = 1
    /\ Cardinality({i \in 1..Len(cover) : cover[i] \in LookAlikes}) >= 1

\* C5: a failing encode_homoglyph reports hidden = the bits placed = the base
\* chars of the cover, required = 8 * len(m), remaining = required - hidden > 0,
\* and no encoded text comes with the error; "AB" into "-" reports 1, 16, 15.
C5_CapacityError ==
    (Encoded("Homoglyph") /\ ret.tag = "Err") =>
        /\ ret.hidden = KeyCount(cover)
        /\ ret.count = 8 * StrLen(text)
        /\ ret.remaining = ret.count - ret.hidden
        /\ ret.remaining > 0
        /\ stdout = <<>>
        /\ (text = <<\h41, \h42>> /\ cover = <<\h2d>>) =>
               (ret.hidden = 1 /\ ret.count = 16 /\ ret.remaining = 15)

\* C5 happens: "AB" into "-".
C5_Witness ==
    /\ Encoded("Homoglyph") /\ ret.tag = "Err"
    /\ text = <<\h41, \h42>> /\ cover = <<\h2d>>

\* C8: a successful encode_homoglyph keeps the length of the cover; the i-th
\* base char of the cover, i < 8 * len(m), becomes its look-alike when message
\* bit i (least significant first) is 1 and stays when it is 0; every other
\* char stays; an empty message returns the cover.
C8_Frame ==
    (Encoded("Homoglyph") /\ ret.tag = "Ok") =>
        LET bytes == AsBytes(text)
        IN  /\ Len(ret.value) = Len(cover)
            /\ \A j \in 1..Len(cover) :
                   LET i == KeysBefore(cover, j)
                   IN  ret.value[j] =
                           IF cover[j] \in Keys /\ i < 8 * Len(bytes) /\ MsgBit(bytes, i) = 1
                           THEN HOMOGLYPHS[cover[j]]
                           ELSE cover[j]
            /\ text = <<>> => ret.value = cover

\* C8 happens: a message of two bytes in a cover with a char outside the table
\* between its base chars.
C8_Witness ==
    /\ Encoded("Homoglyph") /\ ret.tag = "Ok"
    /\ StrLen(text) = 2
    /\ \E j \in 1..Len(cover) : cover[j] \notin CHARS /\ KeysBefore(cover, j) = 8
    /\ ret.value # cover

\* the chars of t that are in EligibleCharSet, in order
EligibleIn(t) == SelectSeq(t, LAMBDA c : c \in Keys \cup LookAlikes)

\* C9: decode_homoglyph never fails; the k-th eligible char of the text gives
\* bit k, 1 for a look-alike and 0 for a base char; n bits give ceil(n/8)
\* bytes, bit k being bit (k mod 8) of byte (k div 8), the high bits of a
\* partial last byte being 0.
C9_HomoglyphDecode ==
    Decoded("Homoglyph") =>
        LET el == EligibleIn(text)
            n == Len(el)
        IN  /\ ret.tag = "Ok"
            /\ Len(raw) = CeilDiv8(n)
            /\ \A b \in 1..Len(raw) : raw[b] \in Bytes
            /\ \A k \in 0..(8 * Len(raw) - 1) :
                   MsgBit(raw, k) = IF k < n /\ el[k + 1] \in LookAlikes THEN 1 ELSE 0

\* C9 happens: eight base chars, a char outside the table and a look-alike
\* give nine bits, hence two bytes.
C9_Witness ==
    /\ Decoded("Homoglyph") /\ sent = None
    /\ Len(EligibleIn(text)) = 9 /\ Len(text) = 10
    /\ raw = <<0, 1>>

\* C10: when the cover has no look-alike and encode_homoglyph succeeds, the
\* bytes decode_homoglyph recovers from the output are the bytes of m followed
\* by one zero byte per started group of 8 surplus base chars.
C10_PrefixRoundTrip ==
    (Decoded("Homoglyph") /\ sent # None
        /\ \A i \in 1..Len(sent[1].cover) : sent[1].cover[i] \notin LookAlikes) =>
        LET m == AsBytes(sent[1].text)
            surplus == KeyCount(sent[1].cover) - 8 * Len(m)
        IN  /\ Len(raw) = Len(m) + CeilDiv8(surplus)
            /\ SubSeq(raw, 1, Len(m)) = m
            /\ \A i \in (Len(m) + 1)..Len(raw) : raw[i] = 0

\* C10 happens: a message of two bytes in a cover of 17 base chars.
C10_Witness ==
    /\ Decoded("Homoglyph") /\ sent # None
    /\ StrLen(sent[1].text) = 2 /\ KeyCount(sent[1].cover) = 17
    /\ Len(raw) = 3

====
